---- MODULE Spec2Model ----
(***************************************************************************)
(* Primary-key index recovery of a lake tablet (LakePrimaryKeyRecover):    *)
(* pre_cleanup, sort_rowsets, rowset_iterator and finalize_delvec of       *)
(* be/src/storage/lake/lake_primary_key_recover.cpp, and the keyed hash    *)
(* set of be/src/column/hash_set.h that the primary index is built on.     *)
(* The driver that calls the four methods in turn, the per-row handler,    *)
(* and the collaborators (metadata, update manager, persistent-index       *)
(* store, metadata builder) are not part of these files; they are modelled *)
(* from the written specification and marked so where they are defined.    *)
(***************************************************************************)
EXTENDS Integers, Sequences, FiniteSets

\* ------------------------------------------------------------------------
\* Bounds of the model
\* ------------------------------------------------------------------------
\* most rowsets get_rowsets returns
MaxRowsets == 2

\* Encoded keys that occur in rowsets: byte strings.  <<2>> and <<1, 1>>
\* differ in length and content and have the same hash (see SliceHash).
Keys == {<<2>>, <<1, 1>>}

\* Byte strings the set's hashing and equality are exercised on.
ByteStrings == {<<>>, <<1>>, <<2>>, <<3>>, <<1, 1>>, <<1, 2>>, <<2, 1>>, <<3, 1>>, <<1, 1, 1>>}

\* ------------------------------------------------------------------------
\* Keyed hash set (hash_set.h)
\* ------------------------------------------------------------------------
RECURSIVE SumBytes(_)
SumBytes(s) == IF s = <<>> THEN 0 ELSE s[1] + SumBytes(Tail(s))

\* Slice(data, size)
Slice(bytes) == [data |-> bytes, size |-> Len(bytes)]

\* SliceHash()(src): a deterministic function of the bytes alone.  The real
\* function is a 64-bit hash; a two-bucket hash keeps collisions between
\* different byte strings inside the model.
SliceHash(src) == SumBytes(src.data) % 2

\* SliceHashWithSeed<seed>()(src): as SliceHash, displaced by the seed.
SliceHashWithSeed(seed, src) == (SumBytes(src.data) + seed) % 2

\* SliceWithHash(const Slice& src): the slice with its hash computed once.
SliceWithHash(src) == [data |-> src.data, size |-> src.size, hash |-> SliceHash(src)]

\* SliceWithHash(p, s, h): the caller supplies the hash.
SliceWithHashOf(p, s, h) == [data |-> p, size |-> s, hash |-> h]

\* TSliceWithHash<seed>(const Slice& src)
TSliceWithHash(seed, src) ==
    [data |-> src.data, size |-> src.size, hash |-> SliceHashWithSeed(seed, src)]

\* HashOnSliceWithHash: the cached hash.
HashOnSliceWithHash(slice) == slice.hash

\* memequal(p1, size1, p2, size2): same size and same bytes.
memequal(p1, size1, p2, size2) ==
    /\ size1 = size2
    /\ \A i \in 1..size1 : p1[i] = p2[i]

\* a slip that keeps the cheap test and drops the byte comparison
EqualOnHashOnly(x, y) == x.hash = y.hash

\* EqualOnSliceWithHash: hash first, then the bytes.
EqualOnSliceWithHash(x, y) ==
    x.hash = y.hash /\ memequal(x.data, x.size, y.data, y.size)

\* a slip that compares only as many bytes as the left key has
TEqualOnLeftSize(x, y) ==
    x.hash = y.hash /\ \A i \in 1..x.size : i <= y.size => x.data[i] = y.data[i]

\* TEqualOnSliceWithHash<seed>
TEqualOnSliceWithHash(x, y) ==
    x.hash = y.hash /\ memequal(x.data, x.size, y.data, y.size)

\* ------------------------------------------------------------------------
\* Rowsets and their order (sort_rowsets)
\* ------------------------------------------------------------------------
\* RowsetMetadataPB: id, the optional max_compact_input_rowset_id, and the
\* encoded keys of its rows; row i of the sequence has row id i - 1.
MkRowset(id, has, max, rows) ==
    [id |-> id,
     has_max_compact_input_rowset_id |-> has,
     max_compact_input_rowset_id |-> IF has THEN max ELSE 0,
     rows |-> rows]

\* a slip that ignores the compaction lineage
comparison_id_own(rowset_meta) == rowset_meta.id

\* lines 62-67: the id a rowset is compared by
comparison_id(rowset_meta) ==
    IF rowset_meta.has_max_compact_input_rowset_id
    THEN rowset_meta.max_compact_input_rowset_id
    ELSE rowset_meta.id

\* a slip that sorts newest first
sort_less_desc(a, b) == comparison_id(a) > comparison_id(b)

\* line 68: the comparator handed to std::sort
sort_less(a, b) == comparison_id(a) < comparison_id(b)

\* std::sort (line 58) as the library the program is built with runs it
\* (libstdc++, bits/stl_algo.h and bits/stl_heap.h): an introsort that
\* partitions ranges of more than S_threshold elements around a median of
\* three, falls back to a heap sort when the depth limit is used up, and
\* finishes with an insertion sort.  Positions are counted from 0, as the
\* iterators of the range are; `a` is the whole vector.  A loop test that
\* does not read the vector also compares it with the empty one, which is
\* never the case where the test is made: it makes the evaluation take the
\* vector of each iteration before the next one begins.
S_threshold == 16

\* *(first + i)
At(a, i) == a[i + 1]

\* *(first + i) = v
Put(a, i, v) == [a EXCEPT ![i + 1] = v]

\* std::iter_swap
iter_swap(a, i, j) == [a EXCEPT ![i + 1] = a[j + 1], ![j + 1] = a[i + 1]]

RECURSIVE unguarded_linear_insert_from(_, _, _)
\* the loop of __unguarded_linear_insert: val moves left past every element
\* it is less than
unguarded_linear_insert_from(a, last, val) ==
    IF sort_less(val, At(a, last - 1))
    THEN unguarded_linear_insert_from(Put(a, last, At(a, last - 1)), last - 1, val)
    ELSE Put(a, last, val)

\* __unguarded_linear_insert(last)
unguarded_linear_insert(a, last) == unguarded_linear_insert_from(a, last, At(a, last))

\* std::move_backward(first, i, i + 1)
move_backward(a, first, i) ==
    [k \in DOMAIN a |-> IF k - 1 \in (first + 1)..i THEN a[k - 1] ELSE a[k]]

RECURSIVE insertion_sort_from(_, _, _, _)
\* the loop of __insertion_sort, at iterator i
insertion_sort_from(a, first, i, last) ==
    IF i = last THEN a
    ELSE IF sort_less(At(a, i), At(a, first))
         THEN insertion_sort_from(Put(move_backward(a, first, i), first, At(a, i)),
                                  first, i + 1, last)
         ELSE insertion_sort_from(unguarded_linear_insert(a, i), first, i + 1, last)

\* __insertion_sort(first, last)
insertion_sort(a, first, last) ==
    IF first = last THEN a ELSE insertion_sort_from(a, first, first + 1, last)

RECURSIVE unguarded_insertion_sort(_, _, _)
\* __unguarded_insertion_sort(first, last)
unguarded_insertion_sort(a, i, last) ==
    IF i = last \/ a = <<>> THEN a
    ELSE unguarded_insertion_sort(unguarded_linear_insert(a, i), i + 1, last)

\* __final_insertion_sort(first, last)
final_insertion_sort(a, first, last) ==
    IF last - first > S_threshold
    THEN unguarded_insertion_sort(insertion_sort(a, first, first + S_threshold),
                                  first + S_threshold, last)
    ELSE insertion_sort(a, first, last)

\* __move_median_to_first(result, x, y, z)
move_median_to_first(a, result, x, y, z) ==
    IF sort_less(At(a, x), At(a, y))
    THEN IF sort_less(At(a, y), At(a, z)) THEN iter_swap(a, result, y)
         ELSE IF sort_less(At(a, x), At(a, z)) THEN iter_swap(a, result, z)
         ELSE iter_swap(a, result, x)
    ELSE IF sort_less(At(a, x), At(a, z)) THEN iter_swap(a, result, x)
    ELSE IF sort_less(At(a, y), At(a, z)) THEN iter_swap(a, result, z)
    ELSE iter_swap(a, result, y)

RECURSIVE partition_up(_, _, _)
\* while (comp(first, pivot)) ++first
partition_up(a, first, pivot) ==
    IF sort_less(At(a, first), At(a, pivot)) THEN partition_up(a, first + 1, pivot)
    ELSE first

RECURSIVE partition_down(_, _, _)
\* while (comp(pivot, last)) --last
partition_down(a, last, pivot) ==
    IF sort_less(At(a, pivot), At(a, last)) THEN partition_down(a, last - 1, pivot)
    ELSE last

RECURSIVE unguarded_partition(_, _, _, _)
\* __unguarded_partition(first, last, pivot): the vector and the cut
unguarded_partition(a, first, last, pivot) ==
    LET f == partition_up(a, first, pivot)
        l == partition_down(a, last - 1, pivot)
    IN  IF ~(f < l)
        THEN [a |-> a, cut |-> f]
        ELSE unguarded_partition(iter_swap(a, f, l), f + 1, l, pivot)

\* __unguarded_partition_pivot(first, last)
unguarded_partition_pivot(a, first, last) ==
    LET mid == first + (last - first) \div 2
    IN  unguarded_partition(move_median_to_first(a, first, first + 1, mid, last - 1),
                            first + 1, last, first)

RECURSIVE push_heap(_, _, _, _, _)
\* __push_heap(first, holeIndex, topIndex, value)
push_heap(a, first, holeIndex, topIndex, value) ==
    LET parent == (holeIndex - 1) \div 2
    IN  IF holeIndex > topIndex /\ sort_less(At(a, first + parent), value)
        THEN push_heap(Put(a, first + holeIndex, At(a, first + parent)),
                       first, parent, topIndex, value)
        ELSE Put(a, first + holeIndex, value)

RECURSIVE adjust_heap_down(_, _, _, _)
\* the first loop of __adjust_heap: the hole moves down to the larger
\* child; holeIndex and secondChild are equal at the loop test
adjust_heap_down(a, first, holeIndex, len) ==
    IF holeIndex < (len - 1) \div 2
    THEN LET right == 2 * (holeIndex + 1)
             child == IF sort_less(At(a, first + right), At(a, first + (right - 1)))
                      THEN right - 1 ELSE right
         IN  adjust_heap_down(Put(a, first + holeIndex, At(a, first + child)),
                              first, child, len)
    ELSE [a |-> a, holeIndex |-> holeIndex]

\* __adjust_heap(first, holeIndex, len, value)
adjust_heap(a, first, holeIndex, len, value) ==
    LET d == adjust_heap_down(a, first, holeIndex, len)
        e == IF len % 2 = 0 /\ d.holeIndex = (len - 2) \div 2
             THEN LET secondChild == 2 * (d.holeIndex + 1)
                  IN  [a |-> Put(d.a, first + d.holeIndex, At(d.a, first + (secondChild - 1))),
                       holeIndex |-> secondChild - 1]
             ELSE d
    IN  push_heap(e.a, first, e.holeIndex, holeIndex, value)

\* __pop_heap(first, last, result)
pop_heap(a, first, last, result) ==
    adjust_heap(Put(a, result, At(a, first)), first, 0, last - first, At(a, result))

RECURSIVE make_heap_from(_, _, _, _)
\* the loop of __make_heap, at parent
make_heap_from(a, first, len, parent) ==
    LET b == adjust_heap(a, first, parent, len, At(a, first + parent))
    IN  IF parent = 0 \/ b = <<>> THEN b ELSE make_heap_from(b, first, len, parent - 1)

\* __make_heap(first, last)
make_heap(a, first, last) ==
    IF last - first < 2 THEN a
    ELSE make_heap_from(a, first, last - first, (last - first - 2) \div 2)

RECURSIVE heap_select_from(_, _, _, _, _)
\* the loop of __heap_select, at iterator i
heap_select_from(a, first, middle, i, last) ==
    IF ~(i < last) THEN a
    ELSE IF sort_less(At(a, i), At(a, first))
         THEN heap_select_from(pop_heap(a, first, middle, i), first, middle, i + 1, last)
         ELSE heap_select_from(a, first, middle, i + 1, last)

\* __heap_select(first, middle, last)
heap_select(a, first, middle, last) ==
    heap_select_from(make_heap(a, first, middle), first, middle, middle, last)

RECURSIVE sort_heap(_, _, _)
\* __sort_heap(first, last)
sort_heap(a, first, last) ==
    IF last - first > 1 /\ a # <<>>
    THEN sort_heap(pop_heap(a, first, last - 1, last - 1), first, last - 1)
    ELSE a

\* __partial_sort(first, middle, last)
partial_sort(a, first, middle, last) ==
    sort_heap(heap_select(a, first, middle, last), first, middle)

RECURSIVE introsort_loop(_, _, _, _)
\* __introsort_loop(first, last, depth_limit)
introsort_loop(a, first, last, depth_limit) ==
    IF last - first > S_threshold /\ a # <<>>
    THEN IF depth_limit = 0
         THEN partial_sort(a, first, last, last)
         ELSE LET p == unguarded_partition_pivot(a, first, last)
                  b == introsort_loop(p.a, p.cut, last, depth_limit - 1)
              IN  introsort_loop(b, first, p.cut, depth_limit - 1)
    ELSE a

RECURSIVE lg(_)
\* std::__lg(n): the position of the highest bit of n
lg(n) == IF n <= 1 THEN 0 ELSE 1 + lg(n \div 2)

\* std::sort(first, last, comp)
std_sort(a) ==
    IF a = <<>> THEN a
    ELSE final_insertion_sort(introsort_loop(a, 0, Len(a), lg(Len(a)) * 2), 0, Len(a))

\* LakePrimaryKeyRecover::sort_rowsets
sort_rowsets(rowsets) == std_sort(rowsets)

\* Tablet::get_rowsets(metadata): the rowsets in the order the metadata
\* lists them.
get_rowsets(md) == md.rowsets

\* ------------------------------------------------------------------------
\* Collaborators of pre_cleanup
\* ------------------------------------------------------------------------
\* TabletMetadata::clear_delvec_meta(): the snapshot loses its delete-vector
\* metadata, in place.
clear_delvec_meta(md) == [md EXCEPT !.delvec_meta = {}]

\* UpdateManager::try_remove_primary_index_cache(tablet_id): best effort,
\* returns nothing.
try_remove_primary_index_cache(tab) == [tab EXCEPT !.cache = FALSE]

\* StorageEngine::get_persistent_index_store(tablet_id): the data dir that
\* holds the tablet's persistent index, or nullptr.
get_persistent_index_store(tab) == IF tab.has_store THEN "data_dir" ELSE "nullptr"

\* TabletMetaManager::remove_tablet_persistent_index_meta(data_dir, id):
\* succeeds when the meta is already absent; an I/O fault leaves it.
remove_tablet_persistent_index_meta(tab, fault) ==
    IF fault = "meta"
    THEN [status |-> "IOError", tablet |-> tab]
    ELSE [status |-> "OK", tablet |-> [tab EXCEPT !.pindex_meta = FALSE]]

\* fs::remove_all(path): succeeds when the path is already absent; an I/O
\* fault leaves the files.
remove_all(tab, fault) ==
    IF fault = "files"
    THEN [status |-> "IOError", tablet |-> tab]
    ELSE [status |-> "OK", tablet |-> [tab EXCEPT !.index_files = FALSE]]

\* ------------------------------------------------------------------------
\* LakePrimaryKeyRecover::pre_cleanup
\* ------------------------------------------------------------------------
\* a slip that looks for the index directory before removing it
purge_store_strict(tab, fault) ==
    LET r1 == remove_tablet_persistent_index_meta(tab, fault)
        r2 == remove_all(r1.tablet, fault)
    IN  IF r1.status # "OK"
        THEN [status |-> r1.status, tablet |-> r1.tablet,
              calls |-> <<"remove_tablet_persistent_index_meta">>,
              failed_at |-> "remove_tablet_persistent_index_meta"]
        ELSE IF ~r1.tablet.index_files
        THEN [status |-> "NotFound", tablet |-> r1.tablet,
              calls |-> <<"remove_tablet_persistent_index_meta">>,
              failed_at |-> "remove_all"]
        ELSE [status |-> r2.status, tablet |-> r2.tablet,
              calls |-> <<"remove_tablet_persistent_index_meta", "remove_all">>,
              failed_at |-> IF r2.status = "OK" THEN "none" ELSE "remove_all"]

\* a slip that removes the index files before the index meta
purge_store_files_first(tab, fault) ==
    LET r1 == remove_all(tab, fault)
        r2 == remove_tablet_persistent_index_meta(r1.tablet, fault)
    IN  IF r1.status # "OK"
        THEN [status |-> r1.status, tablet |-> r1.tablet,
              calls |-> <<"remove_all">>, failed_at |-> "remove_all"]
        ELSE [status |-> r2.status, tablet |-> r2.tablet,
              calls |-> <<"remove_all", "remove_tablet_persistent_index_meta">>,
              failed_at |-> IF r2.status = "OK" THEN "none"
                            ELSE "remove_tablet_persistent_index_meta"]

\* a slip that goes on to remove the index files after the index meta
\* could not be removed, and returns the first failure at the end
purge_store_keeps_going(tab, fault) ==
    LET r1 == remove_tablet_persistent_index_meta(tab, fault)
        r2 == remove_all(r1.tablet, "none")
    IN  IF r1.status # "OK"
        THEN [status |-> r1.status, tablet |-> r2.tablet,
              calls |-> <<"remove_tablet_persistent_index_meta", "remove_all">>,
              failed_at |-> "remove_tablet_persistent_index_meta"]
        ELSE LET r3 == remove_all(r1.tablet, fault)
             IN  [status |-> r3.status, tablet |-> r3.tablet,
                  calls |-> <<"remove_tablet_persistent_index_meta", "remove_all">>,
                  failed_at |-> IF r3.status = "OK" THEN "none" ELSE "remove_all"]

\* lines 38-42: remove the index meta, then the index files; each step
\* returns its failure at once (RETURN_IF_ERROR).
purge_store(tab, fault) ==
    LET r1 == remove_tablet_persistent_index_meta(tab, fault)
        r2 == remove_all(r1.tablet, fault)
    IN  IF r1.status # "OK"
        THEN [status |-> r1.status, tablet |-> r1.tablet,
              calls |-> <<"remove_tablet_persistent_index_meta">>,
              failed_at |-> "remove_tablet_persistent_index_meta"]
        ELSE [status |-> r2.status, tablet |-> r2.tablet,
              calls |-> <<"remove_tablet_persistent_index_meta", "remove_all">>,
              failed_at |-> IF r2.status = "OK" THEN "none" ELSE "remove_all"]

\* a slip that drops the nullptr test on data_dir
pre_cleanup_unguarded(md, tab, fault) ==
    LET md1  == clear_delvec_meta(md)
        tab1 == try_remove_primary_index_cache(tab)
        p    == purge_store(tab1, fault)
    IN  [status |-> p.status, metadata |-> md1, tablet |-> p.tablet,
         calls |-> <<"clear_delvec_meta", "try_remove_primary_index_cache",
                     "get_persistent_index_store">> \o p.calls,
         failed_at |-> p.failed_at]

\* lines 30-45
pre_cleanup(md, tab, fault) ==
    LET md1      == clear_delvec_meta(md)
        tab1     == try_remove_primary_index_cache(tab)
        data_dir == get_persistent_index_store(tab1)
        p        == purge_store(tab1, fault)
        head     == <<"clear_delvec_meta", "try_remove_primary_index_cache",
                      "get_persistent_index_store">>
    IN  IF data_dir # "nullptr"
        THEN [status |-> p.status, metadata |-> md1, tablet |-> p.tablet,
              calls |-> head \o p.calls, failed_at |-> p.failed_at]
        ELSE [status |-> "OK", metadata |-> md1, tablet |-> tab1,
              calls |-> head, failed_at |-> "none"]

\* ------------------------------------------------------------------------
\* The per-row handler of the scan: primary index and DeletesMap
\* ------------------------------------------------------------------------
EmptyMap == [x \in {} |-> <<>>]

\* DeletesMap: rowset id -> the row ids of that rowset that were superseded,
\* in the order they were added.
AddDelete_overwrite(dels, rssid, rowid) ==
    [x \in DOMAIN dels \cup {rssid} |-> IF x = rssid THEN <<rowid>> ELSE dels[x]]

AddDelete(dels, rssid, rowid) ==
    IF rssid \in DOMAIN dels
    THEN [dels EXCEPT ![rssid] = Append(@, rowid)]
    ELSE [x \in DOMAIN dels \cup {rssid} |-> IF x = rssid THEN <<rowid>> ELSE dels[x]]

\* One row of the scan.  The index is a set of entries (key, rssid, rowid)
\* found by the set's equality.  Not found: insert.  Found at another
\* location: the old row goes to DeletesMap under its rowset id and the
\* entry takes the new location.  Found at this very location: an internal
\* inconsistency.
upsert(idx, dels, rssid, rowid, bytes) ==
    LET key   == SliceWithHash(Slice(bytes))
        found == {e \in idx : EqualOnSliceWithHash(e.key, key)}
    IN  IF found = {}
        THEN [status |-> "OK", deletes |-> dels,
              index |-> idx \cup {[key |-> key, rssid |-> rssid, rowid |-> rowid]}]
        ELSE LET e == CHOOSE x \in found : TRUE
             IN  IF e.rssid = rssid /\ e.rowid = rowid
                 THEN [status |-> "InternalError", deletes |-> dels, index |-> idx]
                 ELSE [status |-> "OK",
                       deletes |-> AddDelete(dels, e.rssid, e.rowid),
                       index |-> (idx \ {e}) \cup
                                 {[key |-> e.key, rssid |-> rssid, rowid |-> rowid]}]

\* ------------------------------------------------------------------------
\* Collaborators of finalize_delvec
\* ------------------------------------------------------------------------
\* DelVector::init(version, data, size): the version and the row ids given.
DelVector_init(version, del_ids) == [version |-> version, rows |-> del_ids]

\* MetaFileBuilder::append_delvec(delvec, segment_id): queued for commit
\* under the id.
append_delvec(bld, delvec, segment_id) ==
    bld \cup {[segment_id |-> segment_id, version |-> delvec.version, rows |-> delvec.rows]}

\* ------------------------------------------------------------------------
\* LakePrimaryKeyRecover::finalize_delvec
\* ------------------------------------------------------------------------
\* the builder after the loop has visited the entries ids of new_deletes
RECURSIVE append_each(_, _, _, _)
append_each(bld, version, new_deletes_, ids) ==
    IF ids = {} THEN bld
    ELSE LET id == CHOOSE x \in ids : TRUE
         IN  append_each(append_delvec(bld, DelVector_init(version, new_deletes_[id]), id),
                         version, new_deletes_, ids \ {id})

\* a slip that lets an iteration return a failure: the loop may stop after
\* any part of the entries
finalize_delvec_checked(bld, version, new_deletes_) ==
    {[status |-> "OK",
      builder |-> append_each(bld, version, new_deletes_, DOMAIN new_deletes_)]}
    \cup {[status |-> "IOError", builder |-> append_each(bld, version, new_deletes_, ids)] :
             ids \in (SUBSET DOMAIN new_deletes_) \ {DOMAIN new_deletes_}}

\* lines 94-102: one DelVector per entry of new_deletes, each handed to the
\* builder under the entry's key; the only return is Status::OK().  The
\* result is the set of outcomes the call can have.
finalize_delvec(bld, version, new_deletes_) ==
    {[status |-> "OK",
      builder |-> append_each(bld, version, new_deletes_, DOMAIN new_deletes_)]}

\* ------------------------------------------------------------------------
\* State
\* ------------------------------------------------------------------------
VARIABLES
    phase,        \* Idle, PreCleanup, Scanning, Finalizing, Done, Failed
    metadata,     \* _metadata: version, schema, rowsets, delvec_meta
    tablet,       \* cache and persistent-index-store state of _tablet
    builder,      \* _builder: the delete vectors queued for commit
    index,        \* the primary index of this pass
    new_deletes,  \* the DeletesMap of this pass
    rowsets,      \* rowset_iterator's local: the sorted rowsets
    cursor,       \* position of the range-for in rowsets; 0 before the sort
    row,          \* next row of the open rowset; 0 when none is open
    handled,      \* rowset ids the handler was invoked with, in order
    calls,        \* collaborators pre_cleanup called, in order
    status,       \* the Status last returned
    failed_at,    \* the call whose failure ended the pass
    pre           \* the tablet as it was when the pass started

vars == <<phase, metadata, tablet, builder, index, new_deletes, rowsets, cursor,
          row, handled, calls, status, failed_at, pre>>

\* Rows of a rowset: any sequence of keys, a key possibly more than once
\* (overlapping segments), of at most as many rows as there are keys.
RowSeqs == UNION {[1..n -> Keys] : n \in 0..Cardinality(Keys)}

Snapshot(md, tab, bld) ==
    [delvec_meta |-> md.delvec_meta, tablet |-> tab, builder |-> bld]

\* A tablet of n rowsets with the ids 2..n+1, listed in any order; rowset 1
\* is no longer live.  At most one rowset is the output of a compaction, and
\* its newest input is any id of 1..n+2: a rowset that is gone, the id of a
\* live rowset, or its own id.  Every rowset has a stale delete vector, the
\* cache is loaded, and the persistent index is on disk when the tablet has
\* a store.
Init ==
    \E n \in 0..MaxRowsets :
      \E ids \in [1..n -> 2..(n + 1)], rws \in [1..n -> RowSeqs],
         compacted \in 0..n, max_in \in 1..(n + 2), has_store \in BOOLEAN :
        /\ \A i, j \in 1..n : ids[i] = ids[j] => i = j
        /\ compacted = 0 => max_in = 1
        /\ metadata = [version |-> n + 1,
                       schema |-> [num_key_columns |-> 1],
                       rowsets |-> [i \in 1..n |->
                                      MkRowset(ids[i], i = compacted, max_in, rws[i])],
                       delvec_meta |-> {ids[i] : i \in 1..n}]
        /\ tablet = [has_store |-> has_store, cache |-> TRUE,
                     pindex_meta |-> has_store, index_files |-> has_store]
        /\ pre = Snapshot(metadata, tablet, {})
    /\ phase = "Idle"
    /\ builder = {}
    /\ index = {}
    /\ new_deletes = EmptyMap
    /\ rowsets = <<>>
    /\ cursor = 0
    /\ row = 0
    /\ handled = <<>>
    /\ calls = <<>>
    /\ status = "OK"
    /\ failed_at = "none"

\* ------------------------------------------------------------------------
\* The pass
\* ------------------------------------------------------------------------
\* recover() is entered.
Start ==
    /\ phase = "Idle"
    /\ phase' = "PreCleanup"
    /\ pre' = Snapshot(metadata, tablet, builder)
    /\ UNCHANGED <<metadata, tablet, builder, index, new_deletes, rowsets, cursor,
                   row, handled, calls, status, failed_at>>

\* RETURN_IF_ERROR(pre_cleanup())
PreCleanup ==
    /\ phase = "PreCleanup"
    /\ \E fault \in {"none", "meta", "files"} :
         LET r == pre_cleanup(metadata, tablet, fault)
         IN  /\ metadata' = r.metadata
             /\ tablet' = r.tablet
             /\ calls' = r.calls
             /\ status' = r.status
             /\ failed_at' = r.failed_at
             /\ phase' = IF r.status = "OK" THEN "Scanning" ELSE "Failed"
    /\ UNCHANGED <<builder, index, new_deletes, rowsets, cursor, row, handled,
                   pre>>

\* a slip that sorts the rowset list of the metadata itself, not a copy
BeginScan_in_place ==
    /\ phase = "Scanning"
    /\ cursor = 0
    /\ rowsets' = sort_rowsets(get_rowsets(metadata))
    /\ metadata' = [metadata EXCEPT !.rowsets = rowsets']
    /\ cursor' = 1
    /\ UNCHANGED <<phase, tablet, builder, index, new_deletes, row,
                   handled, calls, status, failed_at, pre>>

\* rowset_iterator, lines 78-81: get the rowsets and sort them.
BeginScan ==
    /\ phase = "Scanning"
    /\ cursor = 0
    /\ rowsets' = sort_rowsets(get_rowsets(metadata))
    /\ cursor' = 1
    /\ UNCHANGED <<phase, metadata, tablet, builder, index, new_deletes, row,
                   handled, calls, status, failed_at, pre>>

\* a slip that hands the handler the id the rowset was sorted by
handler_rowset_id_comparison(rowset) == comparison_id(rowset)

\* line 88: the id the handler is invoked with
handler_rowset_id(rowset) == rowset.id

\* lines 83-88, get_each_segment_iterator succeeds: the handler is invoked
\* for the rowset; a rowset without rows is done at once.
OpenRowset ==
    /\ phase = "Scanning"
    /\ cursor \in 1..Len(rowsets)
    /\ row = 0
    /\ handled' = Append(handled, handler_rowset_id(rowsets[cursor]))
    /\ IF rowsets[cursor].rows = <<>>
       THEN cursor' = cursor + 1 /\ row' = 0
       ELSE cursor' = cursor /\ row' = 1
    /\ UNCHANGED <<phase, metadata, tablet, builder, index, new_deletes, rowsets,
                   calls, status, failed_at, pre>>

\* Rowset::get_each_segment_iterator: the statuses it can fail with; the
\* caller does not tell them apart.
IteratorFailures == {"IOError", "InternalError", "NotFound", "Corruption"}

\* a slip that skips the rowset whose iterators cannot be opened
OpenRowsetFailSkip ==
    /\ phase = "Scanning"
    /\ cursor \in 1..Len(rowsets)
    /\ row = 0
    /\ cursor' = cursor + 1
    /\ status' \in IteratorFailures
    /\ failed_at' = "get_each_segment_iterator"
    /\ UNCHANGED <<phase, metadata, tablet, builder, index, new_deletes, rowsets,
                   row, handled, calls, pre>>

\* lines 83-86, get_each_segment_iterator fails: return res.status(), the
\* status it gave, whichever it is.
OpenRowsetFail ==
    /\ phase = "Scanning"
    /\ cursor \in 1..Len(rowsets)
    /\ row = 0
    /\ phase' = "Failed"
    /\ status' \in IteratorFailures
    /\ failed_at' = "get_each_segment_iterator"
    /\ UNCHANGED <<metadata, tablet, builder, index, new_deletes, rowsets, cursor,
                   row, handled, calls, pre>>

\* a slip that drops the handler's status
handler_status_dropped(st) == FALSE

\* line 88, RETURN_IF_ERROR(handler(...)): rowset_iterator returns at once
\* when the handler's status is not OK.
handler_status_returned(st) == st # "OK"

\* the handler takes the next row of the open rowset; its failure is
\* returned by line 88.
HandleRow ==
    /\ phase = "Scanning"
    /\ row >= 1
    /\ LET rs == rowsets[cursor]
           r  == upsert(index, new_deletes, handled[Len(handled)], row - 1, rs.rows[row])
       IN  /\ index' = r.index
           /\ new_deletes' = r.deletes
           /\ status' = r.status
           /\ IF handler_status_returned(r.status)
              THEN /\ phase' = "Failed"
                   /\ failed_at' = "handler"
                   /\ UNCHANGED <<cursor, row>>
              ELSE /\ UNCHANGED <<phase, failed_at>>
                   /\ IF row = Len(rs.rows)
                      THEN cursor' = cursor + 1 /\ row' = 0
                      ELSE cursor' = cursor /\ row' = row + 1
    /\ UNCHANGED <<metadata, tablet, builder, rowsets, handled, calls, pre>>

\* a slip in the loop bound that leaves the scan one rowset early
ScanDone_early ==
    /\ phase = "Scanning"
    /\ cursor >= 1
    /\ cursor >= Len(rowsets)
    /\ row = 0
    /\ phase' = "Finalizing"
    /\ UNCHANGED <<metadata, tablet, builder, index, new_deletes, rowsets, cursor,
                   row, handled, calls, status, failed_at, pre>>

\* line 90: every rowset is scanned and rowset_iterator returns OK.
ScanDone ==
    /\ phase = "Scanning"
    /\ cursor = Len(rowsets) + 1
    /\ row = 0
    /\ phase' = "Finalizing"
    /\ UNCHANGED <<metadata, tablet, builder, index, new_deletes, rowsets, cursor,
                   row, handled, calls, status, failed_at, pre>>

\* RETURN_IF_ERROR(finalize_delvec(new_deletes)); return Status::OK()
Finalize ==
    /\ phase = "Finalizing"
    /\ \E out \in finalize_delvec(builder, metadata.version, new_deletes) :
         /\ builder' = out.builder
         /\ status' = out.status
         /\ phase' = IF out.status = "OK" THEN "Done" ELSE "Failed"
         /\ failed_at' = IF out.status = "OK" THEN failed_at ELSE "finalize_delvec"
    /\ UNCHANGED <<metadata, tablet, index, new_deletes, rowsets, cursor, row,
                   handled, calls, pre>>

\* The caller retries a failed pass: the in-memory state of the failed
\* attempt is dropped and a new pass starts from Idle on the same tablet
\* and metadata snapshot.
Retry ==
    /\ phase = "Failed"
    /\ phase' = "Idle"
    /\ index' = {}
    /\ new_deletes' = EmptyMap
    /\ rowsets' = <<>>
    /\ cursor' = 0
    /\ row' = 0
    /\ handled' = <<>>
    /\ calls' = <<>>
    /\ status' = "OK"
    /\ failed_at' = "none"
    /\ pre' = Snapshot(metadata, tablet, builder)
    /\ UNCHANGED <<metadata, tablet, builder>>

Next ==
    \/ Start
    \/ PreCleanup
    \/ BeginScan
    \/ OpenRowset
    \/ OpenRowsetFail
    \/ HandleRow
    \/ ScanDone
    \/ Finalize
    \/ Retry

Spec == Init /\ [][Next]_vars

\* ------------------------------------------------------------------------
\* Vocabulary of the properties
\* ------------------------------------------------------------------------
\* the rowsets of the tablet
Tablet == {metadata.rowsets[i] : i \in 1..Len(metadata.rowsets)}

\* the rows of rowset r that hold key k, as row ids
RowIdsOf(r, k) == {i - 1 : i \in {j \in 1..Len(r.rows) : r.rows[j] = k}}

\* the keys that occur in the tablet
TabletKeys == {k \in Keys : \E r \in Tablet : RowIdsOf(r, k) # {}}

\* row rowid of rowset rssid is recorded in DeletesMap under rssid
Deleted(rssid, rowid) ==
    /\ rssid \in DOMAIN new_deletes
    /\ \E j \in 1..Len(new_deletes[rssid]) : new_deletes[rssid][j] = rowid

\* the comparison id as the written specification defines it
SpecComparisonId(r) ==
    IF r.has_max_compact_input_rowset_id THEN r.max_compact_input_rowset_id ELSE r.id

\* the location the primary index holds for the bytes k, as a set
Located(k) == {<<e.rssid, e.rowid>> : e \in {x \in index : x.key.data = k}}

\* the permutations of a sequence of distinct elements
PermsOf(s) ==
    {t \in [1..Len(s) -> {s[i] : i \in 1..Len(s)}] :
        \A i, j \in 1..Len(s) : t[i] = t[j] => i = j}

\* ------------------------------------------------------------------------
\* Properties
\* ------------------------------------------------------------------------
\* C1: after a successful pass, for every key of the tablet exactly one row
\* holding the key is absent from DeletesMap and every other row holding it
\* is recorded in DeletesMap under its own rowset id; DeletesMap records
\* nothing but rows of the tablet.
C1_OneSurvivorPerKey ==
    phase = "Done" =>
        /\ \A k \in TabletKeys :
             Cardinality({x \in UNION {{<<r.id, i>> : i \in RowIdsOf(r, k)} : r \in Tablet} :
                            ~Deleted(x[1], x[2])}) = 1
        /\ \A id \in DOMAIN new_deletes : \A j \in 1..Len(new_deletes[id]) :
             \E r \in Tablet : r.id = id /\ new_deletes[id][j] < Len(r.rows)

\* C1 witness: a pass is done on a tablet in which a key is held by rows of
\* two rowsets, one of them a compaction output, and a row was superseded.
C1_Witness ==
    /\ phase = "Done"
    /\ \E k \in Keys : \E a, b \in Tablet :
         /\ a.id # b.id
         /\ a.has_max_compact_input_rowset_id
         /\ a.max_compact_input_rowset_id # a.id
         /\ RowIdsOf(a, k) # {} /\ RowIdsOf(b, k) # {}
    /\ DOMAIN new_deletes # {}

\* C2: last writer wins.  When a key is held by two rowsets of different
\* comparison ids, after the pass every row of the key in the rowset of the
\* smaller comparison id is in DeletesMap under that rowset, and the primary
\* index maps the key to a row of the rowset whose comparison id is larger
\* than that of every other holder.
C2_LastWriterWins ==
    phase = "Done" =>
        \A k \in TabletKeys : \A a, b \in Tablet :
            (/\ RowIdsOf(a, k) # {} /\ RowIdsOf(b, k) # {}
             /\ SpecComparisonId(a) < SpecComparisonId(b)) =>
                /\ \A i \in RowIdsOf(a, k) : Deleted(a.id, i)
                /\ (\A c \in Tablet : (c # b /\ RowIdsOf(c, k) # {}) =>
                                         SpecComparisonId(c) < SpecComparisonId(b))
                    => \E i \in RowIdsOf(b, k) : Located(k) = {<<b.id, i>>}

\* C2 witness: a pass is done in which get_rowsets listed the rowset of the
\* larger comparison id first, both hold a key, and the index maps the key
\* to the rowset of the larger comparison id.
C2_Witness ==
    /\ phase = "Done"
    /\ Len(metadata.rowsets) >= 2
    /\ SpecComparisonId(metadata.rowsets[1]) > SpecComparisonId(metadata.rowsets[2])
    /\ \E k \in Keys :
         /\ RowIdsOf(metadata.rowsets[1], k) # {}
         /\ RowIdsOf(metadata.rowsets[2], k) # {}
         /\ \E i \in RowIdsOf(metadata.rowsets[1], k) :
              Located(k) = {<<metadata.rowsets[1].id, i>>}
         /\ \A i \in RowIdsOf(metadata.rowsets[2], k) : Deleted(metadata.rowsets[2].id, i)

\* the keys of the rows the handler has taken so far
ScannedKeys ==
    {k \in Keys : \E c \in 1..Len(rowsets) : \E j \in 1..Len(rowsets[c].rows) :
        /\ rowsets[c].rows[j] = k
        /\ \/ c < cursor
           \/ c = cursor /\ row >= 1 /\ j < row}

\* C3: uniqueness.  At every point of the scan the primary index holds at
\* most one entry per encoded key, compared by content, and exactly one for
\* every key scanned so far; after the scan it holds as many entries as the
\* tablet has distinct keys.
C3_Uniqueness ==
    /\ \A e1, e2 \in index : e1.key.data = e2.key.data => e1 = e2
    /\ phase = "Scanning" => Cardinality(index) = Cardinality(ScannedKeys)
    /\ phase \in {"Finalizing", "Done"} => Cardinality(index) = Cardinality(TabletKeys)

\* C3 witness: during the scan the index holds two keys of equal hash and
\* different content, and a third row holding one of them has been taken.
C3_Witness ==
    /\ phase = "Scanning"
    /\ Cardinality(index) = 2
    /\ \E e1, e2 \in index : e1 # e2 /\ e1.key.hash = e2.key.hash
    /\ DOMAIN new_deletes # {}

\* C4: once sort_rowsets has run, the rowsets are those get_rowsets
\* returned, and of any two with different comparison ids the one with the
\* smaller comparison id comes first.
C4_SortedByComparisonId ==
    cursor >= 1 =>
        /\ rowsets \in PermsOf(metadata.rowsets)
        /\ \A i, j \in 1..Len(rowsets) :
             SpecComparisonId(rowsets[i]) < SpecComparisonId(rowsets[j]) => i < j

\* C4 witness: sorted, a compaction output with the smaller comparison id
\* and the larger own id was listed last and now comes first.
C4_Witness ==
    /\ cursor >= 1
    /\ Len(rowsets) = 2
    /\ rowsets[1] = metadata.rowsets[2]
    /\ rowsets[1].has_max_compact_input_rowset_id
    /\ rowsets[1].id > rowsets[2].id
    /\ SpecComparisonId(rowsets[1]) < SpecComparisonId(rowsets[2])

\* C5: the order sort_rowsets produces is the same for every permutation of
\* the rowsets get_rowsets returned, also when comparison ids are equal.
C5_SortDeterministic ==
    cursor >= 1 => \A p \in PermsOf(metadata.rowsets) : sort_rowsets(p) = rowsets

\* C6 as claimed: a failed pass leaves the delete-vector metadata of the
\* snapshot and the persistent-index-store state as they were when the
\* pass started.
C6_FailureRestoresTablet ==
    phase = "Failed" =>
        /\ metadata.delvec_meta = pre.delvec_meta
        /\ tablet.pindex_meta = pre.tablet.pindex_meta
        /\ tablet.index_files = pre.tablet.index_files

\* C6 as amended: a failed pass has queued nothing in the builder, but the
\* cleanup is not undone: the delete-vector metadata stays cleared; when
\* remove_tablet_persistent_index_meta failed remove_all was not called,
\* when remove_all failed the index meta is already gone, and when the
\* failure came during the scan the index meta and the index files are
\* both gone.
C6_FailureKeepsCleanup ==
    phase = "Failed" =>
        /\ builder = pre.builder
        /\ metadata.delvec_meta = {}
        /\ failed_at = "remove_tablet_persistent_index_meta" =>
             \A i \in 1..Len(calls) : calls[i] # "remove_all"
        /\ failed_at = "remove_all" => ~tablet.pindex_meta
        /\ failed_at \in {"get_each_segment_iterator", "handler"} =>
             ~tablet.pindex_meta /\ ~tablet.index_files

\* C6 witness: a pass on a tablet with stale delete vectors and a persistent
\* index on disk failed while opening the second rowset, after rows of the
\* first had been indexed.
C6_Witness ==
    /\ phase = "Failed"
    /\ failed_at = "get_each_segment_iterator"
    /\ cursor = 2
    /\ index # {}
    /\ pre.delvec_meta # {}
    /\ pre.tablet.pindex_meta /\ pre.tablet.index_files

\* the DelVectors of the pass: one per entry of DeletesMap
PassDelVectors ==
    {[segment_id |-> id, version |-> metadata.version, rows |-> new_deletes[id]] :
        id \in DOMAIN new_deletes}

\* C7: in every state the builder holds none of the pass's DelVectors or
\* all of them, and it holds any only when every rowset has been scanned
\* and the pass is done.
C7_NoneOrAllDelVectors ==
    \/ builder = pre.builder
    \/ /\ builder = pre.builder \cup PassDelVectors
       /\ phase = "Done"
       /\ cursor = Len(rowsets) + 1
       /\ Len(handled) = Len(metadata.rowsets)

\* C7 witness: a pass is done that queued two DelVectors, so a proper
\* non-empty part of them exists.
C7_Witness ==
    /\ phase = "Done"
    /\ Cardinality(PassDelVectors) = 2
    /\ builder = PassDelVectors

\* C8: when get_each_segment_iterator fails for a rowset the pass is Failed
\* with that failure, and the handler was invoked exactly for the rowsets
\* before it in the order: not for the failing rowset, not for a later one.
C8_IteratorFailureAborts ==
    failed_at = "get_each_segment_iterator" =>
        /\ phase = "Failed"
        /\ status \in IteratorFailures
        /\ cursor \in 1..Len(rowsets)
        /\ handled = [i \in 1..(cursor - 1) |-> rowsets[i].id]

\* C8 witness: the iterators of the first of two rowsets could not be
\* opened; no rowset was handled.
C8_Witness ==
    /\ failed_at = "get_each_segment_iterator"
    /\ Len(rowsets) = 2
    /\ cursor = 1
    /\ handled = <<>>
    /\ phase = "Failed"

\* C9: cleanup is idempotent.  When pre_cleanup has succeeded the
\* delete-vector metadata is cleared, the cache evicted and the index meta
\* and index files absent, and running pre_cleanup again at once succeeds
\* and changes nothing.
C9_CleanupIdempotent ==
    (phase = "Scanning" /\ cursor = 0) =>
        /\ status = "OK"
        /\ metadata.delvec_meta = {}
        /\ ~tablet.cache /\ ~tablet.pindex_meta /\ ~tablet.index_files
        /\ LET again == pre_cleanup(metadata, tablet, "none")
           IN  /\ again.status = "OK"
               /\ again.metadata = metadata
               /\ again.tablet = tablet

\* C9 witness: pre_cleanup has succeeded, removal calls included, on a
\* tablet that an earlier pre_cleanup had already left clean.
C9_Witness ==
    /\ phase = "Scanning" /\ cursor = 0
    /\ status = "OK"
    /\ tablet.has_store
    /\ calls[Len(calls)] = "remove_all"
    /\ pre.delvec_meta = {}
    /\ ~pre.tablet.cache /\ ~pre.tablet.pindex_meta /\ ~pre.tablet.index_files

\* C10: on a tablet without a persistent-index store pre_cleanup succeeds
\* and calls neither remove_tablet_persistent_index_meta nor remove_all.
C10_NoStoreNoPurge ==
    (~tablet.has_store /\ calls # <<>>) =>
        /\ \A i \in 1..Len(calls) :
             calls[i] \notin {"remove_tablet_persistent_index_meta", "remove_all"}
        /\ failed_at \notin {"remove_tablet_persistent_index_meta", "remove_all"}
        /\ (phase = "Scanning" /\ cursor = 0) => status = "OK"

\* C10 witness: pre_cleanup has returned OK on a tablet without a store.
C10_Witness ==
    /\ ~tablet.has_store
    /\ phase = "Scanning" /\ cursor = 0
    /\ status = "OK"
    /\ calls = <<"clear_delvec_meta", "try_remove_primary_index_cache",
                 "get_persistent_index_store">>

\* ------------------------------------------------------------------------
\* finalize_delvec on its own
\* ------------------------------------------------------------------------
\* Row-id lists a DeletesMap entry can hold, the empty list included.
DeleteSeqs == {<<>>, <<0>>, <<1>>, <<0, 1>>, <<1, 0>>}

\* DeletesMaps over the rowset ids of a tablet.
DeletesMaps == UNION {[D -> DeleteSeqs] : D \in SUBSET (2..(MaxRowsets + 1))}

\* finalize_delvec is entered with any DeletesMap and any metadata version.
InitFinalize ==
    /\ phase = "Finalizing"
    /\ \E v \in 1..3 :
         metadata = [version |-> v, schema |-> [num_key_columns |-> 1],
                     rowsets |-> <<>>, delvec_meta |-> {}]
    /\ new_deletes \in DeletesMaps
    /\ tablet = [has_store |-> FALSE, cache |-> FALSE,
                 pindex_meta |-> FALSE, index_files |-> FALSE]
    /\ builder = {}
    /\ pre = Snapshot(metadata, tablet, {})
    /\ index = {}
    /\ rowsets = <<>>
    /\ cursor = 1
    /\ row = 0
    /\ handled = <<>>
    /\ calls = <<>>
    /\ status = "OK"
    /\ failed_at = "none"

NextFinalize == Finalize

SpecFinalize == InitFinalize /\ [][NextFinalize]_vars

\* C11: after finalize_delvec the builder holds exactly one DelVector for
\* each rowset id whose delete set is non-empty, with the metadata version
\* and that rowset's row ids, under that rowset id, and none for a rowset
\* that is absent from DeletesMap or present with an empty set.
C11_DelVectorPerNonEmptyEntry ==
    phase = "Done" =>
        builder = pre.builder \cup
            {[segment_id |-> id, version |-> metadata.version, rows |-> new_deletes[id]] :
                id \in {x \in DOMAIN new_deletes : new_deletes[x] # <<>>}}

\* C12: the row-id list of every DelVector handed to the builder is sorted
\* ascending, whatever order the row ids were added to DeletesMap.
C12_DelVectorRowsSorted ==
    \A d \in builder :
        \A i, j \in 1..Len(d.rows) : i < j => d.rows[i] <= d.rows[j]

\* The row ids a DeletesMap holds for a rowset id.
DeleteSet(dels, id) ==
    IF id \in DOMAIN dels THEN {dels[id][i] : i \in 1..Len(dels[id])} ELSE {}

\* C13: within one pass the delete set of every rowset only grows: at each
\* step of the pass it contains the set it was before the step; only the
\* start of a new pass after a failure begins from an empty DeletesMap.
C13_MonotonicDeletes ==
    [][\/ phase = "Failed" /\ phase' = "Idle"
       \/ \A id \in DOMAIN new_deletes :
             DeleteSet(new_deletes, id) \subseteq DeleteSet(new_deletes', id)]_vars

\* A delete set that grew twice, next to another one, in a running scan.
C13_Witness ==
    /\ phase = "Scanning"
    /\ \E a, b \in DOMAIN new_deletes :
         /\ a # b
         /\ Cardinality(DeleteSet(new_deletes, a)) >= 2

\* C14: no step of a pass, successful or failed, changes the version, the
\* schema or the rowset list of the tablet metadata; the delete-vector
\* metadata changes only by being cleared in pre_cleanup, and the builder
\* changes only by DelVectors being queued in finalization.
C14_MetadataFrame ==
    [][/\ metadata'.version = metadata.version
       /\ metadata'.schema = metadata.schema
       /\ metadata'.rowsets = metadata.rowsets
       /\ metadata'.delvec_meta # metadata.delvec_meta =>
             phase = "PreCleanup" /\ metadata'.delvec_meta = {}
       /\ builder' # builder =>
             phase = "Finalizing" /\ builder \subseteq builder']_vars

\* A finished pass over an unsorted rowset list that cleared the
\* delete-vector metadata and queued a DelVector.
C14_Witness ==
    /\ phase = "Done"
    /\ pre.delvec_meta # {}
    /\ metadata.delvec_meta = {}
    /\ builder # pre.builder
    /\ metadata.rowsets # rowsets

\* ------------------------------------------------------------------------
\* The scan over an index that is not fresh
\* ------------------------------------------------------------------------
\* Entries an index can already hold when the scan begins: a key of the
\* tablet at a location of the tablet.
StaleEntries(n) ==
    {[key |-> SliceWithHash(Slice(k)), rssid |-> id, rowid |-> rid] :
        k \in Keys, id \in 2..(n + 1), rid \in 0..(Cardinality(Keys) - 1)}

\* Indexes with at most one entry for a key.
StaleIndexes(n) ==
    {S \in SUBSET StaleEntries(n) : \A a, b \in S : a.key = b.key => a = b}

\* The scan is about to begin after a successful pre_cleanup; the index
\* handed to the handler may already hold entries.
InitHandler ==
    \E n \in 1..MaxRowsets :
      \E rws \in [1..n -> RowSeqs] :
        LET md  == [version |-> n + 1, schema |-> [num_key_columns |-> 1],
                    rowsets |-> [i \in 1..n |-> MkRowset(i + 1, FALSE, 0, rws[i])],
                    delvec_meta |-> {i + 1 : i \in 1..n}]
            tab == [has_store |-> FALSE, cache |-> TRUE,
                    pindex_meta |-> FALSE, index_files |-> FALSE]
            r   == pre_cleanup(md, tab, "none")
        IN  /\ phase = "Scanning"
            /\ metadata = r.metadata
            /\ tablet = r.tablet
            /\ calls = r.calls
            /\ status = r.status
            /\ failed_at = r.failed_at
            /\ builder = {}
            /\ pre = Snapshot(md, tab, {})
            /\ index \in StaleIndexes(n)
            /\ new_deletes = EmptyMap
            /\ rowsets = <<>>
            /\ cursor = 0
            /\ row = 0
            /\ handled = <<>>

SpecHandler == InitHandler /\ [][Next]_vars

\* The lookup for the row about to be handled finds an entry at that very
\* row: same rowset id and same row id.
SameLocationFound ==
    /\ phase = "Scanning"
    /\ row >= 1
    /\ \E e \in index :
         /\ EqualOnSliceWithHash(e.key, SliceWithHash(Slice(rowsets[cursor].rows[row])))
         /\ e.rssid = rowsets[cursor].id
         /\ e.rowid = row - 1

\* C15: when the lookup finds an entry at the same rowset id and row id as
\* the row being handled, the pass fails with an internal inconsistency:
\* nothing is added to DeletesMap, the index is left alone, no later row is
\* taken, and the failed pass goes nowhere but to a new attempt, never to
\* Finalizing or Done.
C15_SameLocationFails ==
    [][/\ SameLocationFound =>
            /\ phase' = "Failed"
            /\ status' = "InternalError"
            /\ failed_at' = "handler"
            /\ new_deletes' = new_deletes
            /\ index' = index
            /\ cursor' = cursor
            /\ row' = row
            /\ builder' = builder
       /\ phase = "Failed" => phase' = "Idle"]_vars

\* A pass that failed on an entry at the same location, after it had
\* recorded a deletion and with rows still to come.
C15_Witness ==
    /\ phase = "Failed"
    /\ failed_at = "handler"
    /\ status = "InternalError"
    /\ new_deletes # EmptyMap
    /\ builder = {}
    /\ \/ row < Len(rowsets[cursor].rows)
       \/ cursor < Len(rowsets)

\* The phase changes a pass may make; a failed pass is followed only by a
\* new attempt from Idle.
PhaseSteps ==
    {<<"Idle", "PreCleanup">>, <<"PreCleanup", "Scanning">>, <<"PreCleanup", "Failed">>,
     <<"Scanning", "Scanning">>, <<"Scanning", "Finalizing">>, <<"Scanning", "Failed">>,
     <<"Finalizing", "Done">>, <<"Finalizing", "Failed">>, <<"Failed", "Idle">>}

\* The scan order is the rowset list of the metadata in non-decreasing
\* comparison id.
InOrdererOrder ==
    /\ Len(rowsets) = Len(metadata.rowsets)
    /\ {rowsets[i] : i \in 1..Len(rowsets)} = Tablet
    /\ \A i, j \in 1..Len(rowsets) :
          i < j => SpecComparisonId(rowsets[i]) <= SpecComparisonId(rowsets[j])

\* Where each phase stands: nothing is scanned before pre-cleanup is
\* complete, the rowsets before the cursor are the ones handed to the
\* handler, once each, and finalization sees all of them handled.
PhaseStanding ==
    /\ phase \in {"Idle", "PreCleanup"} =>
          handled = <<>> /\ index = {} /\ cursor = 0 /\ row = 0
    /\ phase \in {"Scanning", "Finalizing", "Done"} =>
          /\ metadata.delvec_meta = {}
          /\ Len(calls) >= 3
          /\ ~tablet.pindex_meta /\ ~tablet.index_files
    /\ (phase = "Scanning" /\ cursor >= 1) =>
          /\ InOrdererOrder
          /\ cursor <= Len(rowsets) + 1
          /\ Len(handled) = IF row >= 1 THEN cursor ELSE cursor - 1
          /\ row >= 1 => row <= Len(rowsets[cursor].rows)
    /\ phase \in {"Finalizing", "Done"} =>
          /\ InOrdererOrder
          /\ cursor = Len(rowsets) + 1
          /\ row = 0
          /\ Len(handled) = Len(rowsets)

\* One step of the scan: the rowset at the cursor is opened only when the
\* one before it is complete, its rows are taken one after the other, and
\* the cursor moves on only past its last row.
ScanStep ==
    (phase = "Scanning" /\ phase' = "Scanning" /\ cursor >= 1) =>
        /\ rowsets' = rowsets
        /\ \/ /\ row = 0 /\ cursor' = cursor /\ row' = 1
              /\ Len(handled') = Len(handled) + 1
           \/ /\ row = 0 /\ cursor' = cursor + 1 /\ row' = 0
              /\ rowsets[cursor].rows = <<>>
              /\ Len(handled') = Len(handled) + 1
           \/ /\ row >= 1 /\ cursor' = cursor /\ row' = row + 1
              /\ handled' = handled
           \/ /\ row >= 1 /\ cursor' = cursor + 1 /\ row' = 0
              /\ row = Len(rowsets[cursor].rows)
              /\ handled' = handled

\* C16: a pass moves through Idle, PreCleanup, Scanning, Finalizing, Done in
\* that order; pre-cleanup is complete before the first rowset is scanned;
\* each rowset is scanned once and completely before the next, in the
\* Orderer's order; finalization begins only after the last rowset; Failed
\* is entered only from a non-terminal phase, never from Done.
C16_PhaseOrder ==
    /\ []PhaseStanding
    /\ [][ScanStep /\ <<phase, phase'>> \in PhaseSteps]_vars

\* A finished pass over a store-backed tablet with two rowsets that hold
\* rows, scanned in an order other than the metadata's.
C16_Witness ==
    /\ phase = "Done"
    /\ tablet.has_store
    /\ Len(rowsets) >= 2
    /\ rowsets # metadata.rowsets
    /\ \A i \in 1..Len(rowsets) : rowsets[i].rows # <<>>

\* ------------------------------------------------------------------------
\* A pass that succeeds at the first attempt, computed in one go
\* ------------------------------------------------------------------------
RECURSIVE ScanRows(_, _, _, _, _)
\* The rows of one rowset from row i on, handled over index idx and
\* DeletesMap dels.
ScanRows(idx, dels, rssid, rows, i) ==
    IF i > Len(rows)
    THEN [index |-> idx, deletes |-> dels]
    ELSE LET r == upsert(idx, dels, rssid, i - 1, rows[i])
         IN  ScanRows(r.index, r.deletes, rssid, rows, i + 1)

RECURSIVE ScanRowsets(_, _, _, _)
\* The rowsets of rws from position c on, each under its own id.
ScanRowsets(idx, dels, rws, c) ==
    IF c > Len(rws)
    THEN [index |-> idx, deletes |-> dels]
    ELSE LET r == ScanRows(idx, dels, rws[c].id, rws[c].rows, 1)
         IN  ScanRowsets(r.index, r.deletes, rws, c + 1)

\* What a pass over metadata md that meets no failure ends with.
FirstAttempt(md) ==
    LET s == ScanRowsets({}, EmptyMap, sort_rowsets(get_rowsets(md)), 1)
    IN  [index |-> s.index, deletes |-> s.deletes,
         delvecs |-> {[segment_id |-> id, version |-> md.version, rows |-> s.deletes[id]] :
                         id \in DOMAIN s.deletes}]

\* C17: a pass that ends in Done, whatever failed attempts came before it,
\* holds the Primary Index, the DeletesMap and the DelVectors of a pass that
\* succeeds at the first attempt; a new attempt starts with nothing left of
\* a failed one, its pre_cleanup succeeds when nothing fails under it, and
\* no step fails by itself because of what an earlier attempt left.
C17_RetrySafe ==
    /\ phase = "Done" =>
          /\ index = FirstAttempt(metadata).index
          /\ new_deletes = FirstAttempt(metadata).deletes
          /\ builder = FirstAttempt(metadata).delvecs
    /\ phase \in {"Idle", "PreCleanup"} =>
          /\ index = {} /\ new_deletes = EmptyMap /\ builder = {}
          /\ pre_cleanup(metadata, tablet, "none").status = "OK"
    /\ phase = "Failed" =>
          failed_at \in {"remove_tablet_persistent_index_meta", "remove_all",
                         "get_each_segment_iterator"}

\* A pass that ended in Done after an attempt that had already cleared the
\* delete-vector metadata and removed the index meta but not the index
\* files had failed.
C17_Witness ==
    /\ phase = "Done"
    /\ pre.delvec_meta = {}
    /\ ~pre.tablet.pindex_meta
    /\ pre.tablet.index_files
    /\ Cardinality(builder) >= 2

\* ------------------------------------------------------------------------
\* The keyed hash set under keys of many shapes
\* ------------------------------------------------------------------------
\* Seeds of TSliceWithHash<seed>.
Seeds == {0, 1}

\* A tablet of one rowset whose three rows hold any of the byte strings the
\* set is exercised on.
InitHashSet ==
    \E rows \in [1..3 -> ByteStrings], has_store \in BOOLEAN :
        /\ phase = "Idle"
        /\ metadata = [version |-> 2, schema |-> [num_key_columns |-> 1],
                       rowsets |-> <<MkRowset(2, FALSE, 0, rows)>>,
                       delvec_meta |-> {2}]
        /\ tablet = [has_store |-> has_store, cache |-> TRUE,
                     pindex_meta |-> has_store, index_files |-> has_store]
        /\ builder = {}
        /\ pre = Snapshot(metadata, tablet, {})
        /\ index = {}
        /\ new_deletes = EmptyMap
        /\ rowsets = <<>>
        /\ cursor = 0
        /\ row = 0
        /\ handled = <<>>
        /\ calls = <<>>
        /\ status = "OK"
        /\ failed_at = "none"

SpecHashSet == InitHashSet /\ [][Next]_vars

\* The byte strings of the rows of the tablet.
KeysOfTablet == UNION {{r.rows[i] : i \in 1..Len(r.rows)} : r \in Tablet}

\* C18: for keys built by the hashing constructor, SliceWithHash or
\* TSliceWithHash of one seed, the set's equality holds exactly when the
\* byte strings have the same length and the same content: different
\* strings of equal hash are not equal, identical strings are.
C18_EqualityIsByteEquality ==
    \A a, b \in KeysOfTablet :
        /\ EqualOnSliceWithHash(SliceWithHash(Slice(a)), SliceWithHash(Slice(b)))
              <=> (Len(a) = Len(b) /\ a = b)
        /\ \A seed \in Seeds :
              TEqualOnSliceWithHash(TSliceWithHash(seed, Slice(a)), TSliceWithHash(seed, Slice(b)))
                 <=> (Len(a) = Len(b) /\ a = b)

\* A finished scan of rows a, b, a, where b is longer than a, begins with
\* a and has a's hash under either seed: the index keeps a and b apart and
\* the second a was found equal to the first.
C18_Witness ==
    /\ phase = "Done"
    /\ Cardinality(index) = 2
    /\ \E e1, e2 \in index :
         /\ e1.key.size < e2.key.size
         /\ SubSeq(e2.key.data, 1, e1.key.size) = e1.key.data
         /\ HashOnSliceWithHash(e1.key) = HashOnSliceWithHash(e2.key)
         /\ \A seed \in Seeds :
               TSliceWithHash(seed, Slice(e1.key.data)).hash =
                   TSliceWithHash(seed, Slice(e2.key.data)).hash
         /\ e1.rowid = 2
         /\ e2.rowid = 1
    /\ new_deletes = [x \in {2} |-> <<0>>]

\* The steps of pre_cleanup in the order of the source.
CleanupOrder ==
    <<"clear_delvec_meta", "try_remove_primary_index_cache",
      "get_persistent_index_store", "remove_tablet_persistent_index_meta",
      "remove_all">>

\* C19: pre_cleanup takes its steps in one fixed order (clear the
\* delete-vector metadata, evict the cache, remove the index meta, remove
\* the index files) and stops at the first that fails: when removing the
\* index meta fails, remove_all is not invoked and that failure is what is
\* returned, with the delete-vector metadata already cleared and the cache
\* eviction already made.
C19_CleanupStopsAtFirstFailure ==
    /\ Len(calls) <= Len(CleanupOrder)
    /\ calls = SubSeq(CleanupOrder, 1, Len(calls))
    /\ failed_at = "remove_tablet_persistent_index_meta" =>
          /\ phase = "Failed"
          /\ status = "IOError"
          /\ calls = SubSeq(CleanupOrder, 1, 4)
          /\ tablet.index_files = pre.tablet.index_files
          /\ tablet.pindex_meta = pre.tablet.pindex_meta
          /\ metadata.delvec_meta = {}
          /\ ~tablet.cache
    /\ failed_at = "remove_all" =>
          /\ phase = "Failed"
          /\ status = "IOError"
          /\ calls = CleanupOrder
          /\ ~tablet.pindex_meta
          /\ metadata.delvec_meta = {}

\* The first attempt on a store-backed tablet failed at removing the index
\* meta: the index files and the meta are still there, the delete-vector
\* metadata is cleared and the cache is evicted.
C19_Witness ==
    /\ phase = "Failed"
    /\ failed_at = "remove_tablet_persistent_index_meta"
    /\ pre.delvec_meta # {}
    /\ pre.tablet.cache
    /\ tablet.index_files
    /\ tablet.pindex_meta
    /\ metadata.delvec_meta = {}
    /\ ~tablet.cache
    /\ builder = {}

\* The rowset of the tablet with own id `id` holds a row `rowid`.
IsRowOf(id, rowid) ==
    \E r \in Tablet : r.id = id /\ rowid \in 0..(Len(r.rows) - 1)

\* C20: the scan is ordered by comparison id but every rowset is handed to
\* the handler under its own id: index locations, DeletesMap entries and
\* DelVectors name a rowset by its own id, a compacted rowset included,
\* never by its comparison id.
C20_KeyedByOwnId ==
    /\ \A i \in 1..Len(handled) : handled[i] = rowsets[i].id
    /\ \A e \in index :
          \E r \in Tablet : r.id = e.rssid /\ e.rowid \in RowIdsOf(r, e.key.data)
    /\ \A id \in DOMAIN new_deletes :
          \A rowid \in DeleteSet(new_deletes, id) : IsRowOf(id, rowid)
    /\ \A d \in builder :
          /\ \E r \in Tablet : r.id = d.segment_id
          /\ \A i \in 1..Len(d.rows) : IsRowOf(d.segment_id, d.rows[i])

\* A finished pass over a tablet with a compacted rowset whose comparison
\* id is no rowset's own id: a key survives in it, one of its rows is
\* superseded, and its DelVector is queued, all under its own id.
C20_Witness ==
    /\ phase = "Done"
    /\ \E c \in Tablet :
         /\ c.has_max_compact_input_rowset_id
         /\ c.max_compact_input_rowset_id # c.id
         /\ \A r \in Tablet : r.id # c.max_compact_input_rowset_id
         /\ \E e \in index : e.rssid = c.id
         /\ c.id \in DOMAIN new_deletes
         /\ \E d \in builder : d.segment_id = c.id
         /\ c.max_compact_input_rowset_id \notin DOMAIN new_deletes

====
